---- MODULE Spec2Model ----
(***************************************************************************)
(* EV-Battery-Monitor: the coulomb-counting Charge Estimator of server.js  *)
(* (calculateSOC, POST /api/reset-soc) and the GET /api/data handler that  *)
(* drives it.                                                              *)
(*                                                                         *)
(* Numbers.  The program computes in IEEE doubles.  The model keeps every  *)
(* quantity an exact integer: times are milliseconds (Date.now()) that     *)
(* advance in half hours, telemetry currents are whole amperes, and reset  *)
(* percents are multiples of 25, so that every product and quotient the    *)
(* code forms is an integer and \div is exact.  Non-numeric request bodies *)
(* and double overflow (NaN, Infinity) are outside the model.              *)
(***************************************************************************)
EXTENDS Integers, Sequences, FiniteSets, TLC

(***************************************************************************)
(* Program constants                                                       *)
(***************************************************************************)
BATTERY_CAPACITY == 2000          \* mAh, server.js:479
MsPerHour == 3600000              \* server.js:501
MilliPerAmp == 1000               \* server.js:660
DefaultResetSOC == 100            \* server.js:768

(***************************************************************************)
(* Bounds of the model                                                     *)
(***************************************************************************)
NumRequests == 2                  \* GET /api/data requests that can be in flight
MaxOps == 3                       \* requests served (updates + resets)
MaxClockTicks == 2                \* the clock stays within 0 .. MaxClockTicks half hours

TickMs == MsPerHour \div 2
TicksPerHour == MsPerHour \div TickMs
Requests == 1..NumRequests
\* Date.now() may stall (no step), advance, or go backwards (clock adjustment)
ClockSteps == {0 - TickMs, TickMs}
\* field2 of the telemetry feed, in amperes; ok = FALSE is a missing or
\* non-numeric field
Field2Values ==
    {[ok |-> TRUE, v |-> a] : a \in {0 - 2, 0, 2, 50}} \cup {[ok |-> FALSE, v |-> 0]}
\* body.soc of POST /api/reset-soc; has = FALSE is a body without soc
ResetBodies ==
    {[has |-> TRUE, soc |-> p] : p \in {0 - 50, 0, 25, 100, 150}}
        \cup {[has |-> FALSE, soc |-> 0]}

VARIABLES
    totalCurrent_mAh,   \* server.js:485
    consumedCapacity,   \* server.js:487
    lastUpdateTime,     \* server.js:488
    isCharging,         \* server.js:489
    previousCurrent,    \* server.js:490
    clock,              \* Date.now()
    reqPc,              \* per GET /api/data request: "idle" or "fetching" (at the await)
    reqResp,            \* per request slot: the last response sent
    resetResp,          \* the last response of POST /api/reset-soc
    nOps,               \* number of requests accepted so far
    last,               \* history: the last ChargeState operation and its result
    serial,             \* history: ChargeState of the serial execution of the completed operations
    calc,               \* the last application of a calculation function: arguments and result
    v1Pc,               \* GET /api/data, voltage-based version: "idle" or "fetching"
    v1Cycle,            \* the sample, the locals and the batteryData of the last cycle
    v1Resp,             \* the last response of GET /api/data, voltage-based version
    modePc,             \* POST /api/mode: idle, or the locals of the handler awaiting the write
    modeResp,           \* the last response of POST /api/mode, with the request it answers
    field5,             \* the actuator channel: the value last stored in field5, <<>> before any
    currentMode,        \* script.js:7
    activeBtn,          \* the mode button carrying the class "active"
    currentModeText,    \* text of the element #current-mode
    modeCalls,          \* the modes of the setMode calls awaiting their response, oldest first
    dashLast            \* history: the last step of a setMode call

\* the coulomb-counting server (server.js:432-847)
coulombVars == <<totalCurrent_mAh, consumedCapacity, lastUpdateTime, isCharging,
                 previousCurrent, clock, reqPc, reqResp, resetResp, nOps, last, serial>>
\* the calculation functions applied on their own
calcVars == <<calc>>
\* the voltage-based server (server.js:1-430) and POST /api/mode
apiVars == <<v1Pc, v1Cycle, v1Resp, modePc, modeResp, field5>>
\* the dashboard (public/script.js)
dashVars == <<currentMode, activeBtn, currentModeText, modeCalls, dashLast>>

vars == <<coulombVars, calcVars, apiVars, dashVars>>

chargeVars == <<totalCurrent_mAh, consumedCapacity, lastUpdateTime, isCharging>>

\* the ChargeState globals as one value
ChargeState ==
    [totalCurrent_mAh |-> totalCurrent_mAh,
     consumedCapacity |-> consumedCapacity,
     lastUpdateTime   |-> lastUpdateTime,
     isCharging       |-> isCharging]

(***************************************************************************)
(* calculateSOC(current_mA, voltage), server.js:499-533                    *)
(***************************************************************************)
\* parseFloat(data.field2) || 0
ParseField(f) == IF f.ok THEN f.v ELSE 0

ToMilliAmpsNoScale(current) == current
\* const current_mA = current * 1000
ToMilliAmps(current) == current * MilliPerAmp

\* current_mA * deltaTime_h with deltaTime_h = deltaMs / 3600000.0 (lines 501, 504).
\* deltaMs is a whole number of ticks, so deltaTime_h is (deltaMs / TickMs) /
\* TicksPerHour; the product is formed before the division to stay exact.
DeltaCapacity(current_mA, deltaMs) == (current_mA * (deltaMs \div TickMs)) \div TicksPerHour

IntegrateAnyCurrent(st, current_mA, currentTime) ==
    LET deltaMs == currentTime - st.lastUpdateTime
        d == DeltaCapacity(current_mA, deltaMs)
    IN  IF deltaMs > 0
        THEN [totalCurrent_mAh |-> st.totalCurrent_mAh + d,
              consumedCapacity |-> st.consumedCapacity + d,
              lastUpdateTime   |-> currentTime,
              isCharging       |-> ~(current_mA > 0)]
        ELSE st

IntegrateAnyDelta(st, current_mA, currentTime) ==
    LET deltaMs == currentTime - st.lastUpdateTime
        d == DeltaCapacity(current_mA, deltaMs)
    IN  IF deltaMs # 0
        THEN [totalCurrent_mAh |-> st.totalCurrent_mAh + d,
              consumedCapacity |-> IF current_mA > 0
                                   THEN st.consumedCapacity + d
                                   ELSE st.consumedCapacity,
              lastUpdateTime   |-> currentTime,
              isCharging       |-> ~(current_mA > 0)]
        ELSE st

IntegrateCharges(st, current_mA, currentTime) ==
    LET deltaMs == currentTime - st.lastUpdateTime
        d == DeltaCapacity(current_mA, deltaMs)
    IN  IF deltaMs > 0
        THEN [totalCurrent_mAh |-> st.totalCurrent_mAh + d,
              consumedCapacity |-> IF current_mA > 0
                                   THEN st.consumedCapacity - d
                                   ELSE st.consumedCapacity,
              lastUpdateTime   |-> currentTime,
              isCharging       |-> ~(current_mA > 0)]
        ELSE st

\* the integration step, lines 500-517
Integrate(st, current_mA, currentTime) ==
    LET deltaMs == currentTime - st.lastUpdateTime
        d == DeltaCapacity(current_mA, deltaMs)
    IN  IF deltaMs > 0
        THEN [totalCurrent_mAh |-> st.totalCurrent_mAh + d,
              consumedCapacity |-> IF current_mA > 0
                                   THEN st.consumedCapacity + d
                                   ELSE st.consumedCapacity,
              lastUpdateTime   |-> currentTime,
              isCharging       |-> ~(current_mA > 0)]
        ELSE st

\* (remainingCapacity / BATTERY_CAPACITY) * 100.0, lines 519-520
RawSoc(consumed) == ((BATTERY_CAPACITY - consumed) * 100) \div BATTERY_CAPACITY

ClampSocUpperOnly(soc) == IF soc > 100 THEN 100 ELSE soc
\* lines 523-524
ClampSoc(soc) == IF soc > 100 THEN 100 ELSE IF soc < 0 THEN 0 ELSE soc

\* the new ChargeState and the value returned
calculateSOC(st, current_mA, currentTime) ==
    LET st2 == Integrate(st, current_mA, currentTime)
    IN  [state |-> st2, soc |-> ClampSoc(RawSoc(st2.consumedCapacity))]

(***************************************************************************)
(* POST /api/reset-soc, server.js:765-790                                  *)
(***************************************************************************)
\* const resetSOC = soc || 100: undefined and 0 are both falsy
ResetSOCOf(body) == IF body.has /\ body.soc # 0 THEN body.soc ELSE DefaultResetSOC

ResetConsumedOfAsserted(resetSOC) == (resetSOC * BATTERY_CAPACITY) \div 100
\* ((100 - resetSOC) / 100) * BATTERY_CAPACITY
ResetConsumed(resetSOC) == ((100 - resetSOC) * BATTERY_CAPACITY) \div 100

resetState(st, body, currentTime) ==
    [totalCurrent_mAh |-> 0,
     consumedCapacity |-> ResetConsumed(ResetSOCOf(body)),
     lastUpdateTime   |-> currentTime,
     isCharging       |-> st.isCharging]

(***************************************************************************)
(* History records                                                         *)
(***************************************************************************)
NoOp ==
    [kind |-> "none", current |-> 0, current_mA |-> 0, deltaMs |-> 0, soc |-> 0,
     body |-> [has |-> FALSE, soc |-> 0], inFlight |-> FALSE, now |-> 0,
     \* fieldOk: field2 of the sample was a number; resp: the response sent
     fieldOk |-> FALSE, resp |-> "none",
     \* pre is the ChargeState before an update; it is not recorded for a reset
     pre |-> [totalCurrent_mAh |-> 0, consumedCapacity |-> 0,
              lastUpdateTime |-> 0, isCharging |-> FALSE],
     prevKind |-> "none", prevFullReset |-> FALSE,
     hasPrevSoc |-> FALSE, prevSoc |-> 0, prevDischarge |-> FALSE, resetSince |-> FALSE]

\* op is reset(100): the percent 100 asserted, or no percent at all
IsFullReset(op) == op.kind = "reset" /\ (op.body.has => op.body.soc = 100)

\* Building batteryData reads the names runtime, range, power and energy
\* (lines 678-681), which this version declares nowhere: the evaluation throws
\* a ReferenceError inside the try block.
BuildBatteryDataThrows == TRUE

\* what GET /api/data answers once the telemetry is there: res.json with success
\* true (line 692), or the catch block's 500 with success false (lines 693-700)
DataResponse == IF BuildBatteryDataThrows THEN "error" ELSE "success"

\* the record of an update that returned result res
\* (r is the request, f2 the telemetry field2, current its value in amperes)
UpdateOp(r, f2, current, current_mA, res) ==
    [kind |-> "update", current |-> current, current_mA |-> current_mA,
     fieldOk |-> f2.ok, resp |-> DataResponse,
     deltaMs |-> clock - lastUpdateTime, soc |-> res.soc,
     body |-> [has |-> FALSE, soc |-> 0],
     inFlight |-> \E q \in Requests : q # r /\ reqPc[q] = "fetching",
     now |-> clock, pre |-> ChargeState,
     prevKind |-> last.kind, prevFullReset |-> IsFullReset(last),
     hasPrevSoc |-> IF last.kind = "update" THEN TRUE ELSE last.hasPrevSoc,
     prevSoc |-> IF last.kind = "update" THEN last.soc ELSE last.prevSoc,
     prevDischarge |-> IF last.kind = "update"
                       THEN last.current_mA > 0 /\ last.deltaMs > 0
                       ELSE last.prevDischarge,
     resetSince |-> IF last.kind = "update" THEN FALSE ELSE last.resetSince]

ResetOp(body) ==
    [kind |-> "reset", current |-> 0, current_mA |-> 0, deltaMs |-> 0, soc |-> 0,
     fieldOk |-> FALSE, resp |-> "success",
     body |-> body, inFlight |-> \E q \in Requests : reqPc[q] = "fetching",
     now |-> clock, pre |-> NoOp.pre,
     prevKind |-> last.kind, prevFullReset |-> IsFullReset(last),
     hasPrevSoc |-> IF last.kind = "update" THEN TRUE ELSE last.hasPrevSoc,
     prevSoc |-> IF last.kind = "update" THEN last.soc ELSE last.prevSoc,
     prevDischarge |-> IF last.kind = "update"
                       THEN last.current_mA > 0 /\ last.deltaMs > 0
                       ELSE last.prevDischarge,
     resetSince |-> TRUE]

(***************************************************************************)
(* Exact rational numbers for the calculation functions: [n, d] in lowest  *)
(* terms with d > 0.  NaN is the value with d = 0; every comparison with   *)
(* NaN is false, as in JavaScript.                                         *)
(***************************************************************************)
Abs(x) == IF x < 0 THEN 0 - x ELSE x

RECURSIVE Gcd(_, _)
Gcd(a, b) == IF b = 0 THEN a ELSE Gcd(b, a % b)

\* a rational number n/d in lowest terms with d > 0; d = 0 is NaN
Rat == [n : Int, d : Int]

Q[n \in Int, d \in Int] ==
    LET g == Gcd(Abs(n), Abs(d))
        sgn == IF d < 0 THEN 0 - 1 ELSE 1
    IN  [n |-> (sgn * n) \div g, d |-> (sgn * d) \div g]
QInt(k) == [n |-> k, d |-> 1]
NaN == [n |-> 0, d |-> 0]
isNaN(a) == a.d = 0
QAdd[a \in Rat, b \in Rat] == IF isNaN(a) \/ isNaN(b) THEN NaN ELSE Q[a.n * b.d + b.n * a.d, a.d * b.d]
QSub[a \in Rat, b \in Rat] == IF isNaN(a) \/ isNaN(b) THEN NaN ELSE Q[a.n * b.d - b.n * a.d, a.d * b.d]
QMul[a \in Rat, b \in Rat] == IF isNaN(a) \/ isNaN(b) THEN NaN ELSE Q[a.n * b.n, a.d * b.d]
\* the divisors of the program are nonzero constants or a current known to be > 0
QDiv[a \in Rat, b \in Rat] == IF isNaN(a) \/ isNaN(b) THEN NaN ELSE Q[a.n * b.d, a.d * b.n]
QLt[a \in Rat, b \in Rat] == ~isNaN(a) /\ ~isNaN(b) /\ a.n * b.d < b.n * a.d
QLe[a \in Rat, b \in Rat] == ~isNaN(a) /\ ~isNaN(b) /\ a.n * b.d <= b.n * a.d
QGt[a \in Rat, b \in Rat] == QLt[b, a]
QGe[a \in Rat, b \in Rat] == QLe[b, a]
\* Math.abs, Math.max, Math.min
QAbs[a \in Rat] == [n |-> Abs(a.n), d |-> a.d]
QMax[a \in Rat, b \in Rat] == IF isNaN(a) \/ isNaN(b) THEN NaN ELSE IF QLt[a, b] THEN b ELSE a
QMin[a \in Rat, b \in Rat] == IF isNaN(a) \/ isNaN(b) THEN NaN ELSE IF QLt[b, a] THEN b ELSE a
\* a decimal literal with one, two decimals
D1(tenths) == Q[tenths, 10]
D2(hundredths) == Q[hundredths, 100]

(***************************************************************************)
(* The calculation functions of the voltage-based version, server.js:54-246 *)
(***************************************************************************)
calculateSOC_voltageFlatSlope(voltage) ==
    LET soc ==
          IF QGe[voltage, D1(42)] THEN QInt(100)
          ELSE IF QGe[voltage, D1(40)]
          THEN QAdd[QInt(80), QMul[QDiv[QSub[voltage, D1(40)], QSub[D1(42), D1(40)]], QInt(20)]]
          ELSE IF QGe[voltage, D1(37)]
          THEN QAdd[QInt(40), QMul[QDiv[QSub[voltage, D1(37)], QSub[D1(40), D1(37)]], QInt(30)]]
          ELSE IF QGe[voltage, D1(34)]
          THEN QAdd[QInt(10), QMul[QDiv[QSub[voltage, D1(34)], QSub[D1(37), D1(34)]], QInt(30)]]
          ELSE IF QGe[voltage, D1(30)]
          THEN QAdd[QInt(0), QMul[QDiv[QSub[voltage, D1(30)], QSub[D1(34), D1(30)]], QInt(10)]]
          ELSE QInt(0)
    IN  QMax[QInt(0), QMin[QInt(100), soc]]

\* calculateSOC(voltage), lines 54-90
calculateSOC_voltage(voltage) ==
    LET soc ==
          IF QGe[voltage, D1(42)] THEN QInt(100)
          ELSE IF QGe[voltage, D1(40)]
          THEN QAdd[QInt(80), QMul[QDiv[QSub[voltage, D1(40)], QSub[D1(42), D1(40)]], QInt(20)]]
          ELSE IF QGe[voltage, D1(37)]
          THEN QAdd[QInt(40), QMul[QDiv[QSub[voltage, D1(37)], QSub[D1(40), D1(37)]], QInt(40)]]
          ELSE IF QGe[voltage, D1(34)]
          THEN QAdd[QInt(10), QMul[QDiv[QSub[voltage, D1(34)], QSub[D1(37), D1(34)]], QInt(30)]]
          ELSE IF QGe[voltage, D1(30)]
          THEN QAdd[QInt(0), QMul[QDiv[QSub[voltage, D1(30)], QSub[D1(34), D1(30)]], QInt(10)]]
          ELSE QInt(0)
    IN  QMax[QInt(0), QMin[QInt(100), soc]]

(***************************************************************************)
(* IEEE-754 double arithmetic, where rounding decides a branch.  A natural *)
(* number is a little-endian sequence of limbs without leading zeros; a     *)
(* double is s x m x 2^e with a mantissa m of exactly 53 bits, or zero.     *)
(* The operations are functions, so that their arguments are values.        *)
(***************************************************************************)
MantissaBits == 53
LimbBits == 14
LimbBase == 2 ^ LimbBits
Limbs == Seq(0..(LimbBase - 1))
Dbl == [s : {0 - 1, 1}, m : Limbs, e : Int]

LCons[limb \in Nat, a \in Limbs] == IF limb = 0 /\ a = <<>> THEN <<>> ELSE <<limb>> \o a

LimbsOf[k \in Nat] == IF k = 0 THEN <<>> ELSE <<k % LimbBase>> \o LimbsOf[k \div LimbBase]

LAddC[a \in Limbs, b \in Limbs, carry \in Nat] ==
    IF a = <<>> /\ b = <<>>
    THEN LimbsOf[carry]
    ELSE LET x == IF a = <<>> THEN 0 ELSE Head(a)
             y == IF b = <<>> THEN 0 ELSE Head(b)
             t == x + y + carry
         IN  <<t % LimbBase>> \o LAddC[IF a = <<>> THEN <<>> ELSE Tail(a),
                                       IF b = <<>> THEN <<>> ELSE Tail(b), t \div LimbBase]

LAdd[a \in Limbs, b \in Limbs] == LAddC[a, b, 0]

\* a - b for a >= b
LSubB[a \in Limbs, b \in Limbs, borrow \in Nat] ==
    IF a = <<>>
    THEN <<>>
    ELSE LET y == IF b = <<>> THEN 0 ELSE Head(b)
             t == Head(a) - y - borrow
         IN  LCons[(t + LimbBase) % LimbBase,
                   LSubB[Tail(a), IF b = <<>> THEN <<>> ELSE Tail(b), IF t < 0 THEN 1 ELSE 0]]

LSub[a \in Limbs, b \in Limbs] == LSubB[a, b, 0]

LCmpAt[a \in Limbs, b \in Limbs, i \in Nat] ==
    IF i = 0 THEN 0
    ELSE IF a[i] > b[i] THEN 1
    ELSE IF a[i] < b[i] THEN 0 - 1
    ELSE LCmpAt[a, b, i - 1]

\* -1, 0 or 1 as a < b, a = b or a > b
LCmp[a \in Limbs, b \in Limbs] ==
    IF Len(a) > Len(b) THEN 1
    ELSE IF Len(a) < Len(b) THEN 0 - 1
    ELSE LCmpAt[a, b, Len(a)]

\* a x k + carry for k < LimbBase
LMulC[a \in Limbs, k \in Nat, carry \in Nat] ==
    IF a = <<>>
    THEN LimbsOf[carry]
    ELSE LET t == Head(a) * k + carry
         IN  LCons[t % LimbBase, LMulC[Tail(a), k, t \div LimbBase]]

LMulSmall[a \in Limbs, k \in Nat] == LMulC[a, k, 0]

LMul[a \in Limbs, b \in Limbs] ==
    IF a = <<>> \/ b = <<>>
    THEN <<>>
    ELSE LAdd[LMulSmall[a, Head(b)], LCons[0, LMul[a, Tail(b)]]]

\* quotient and remainder of a by d, 0 < d < LimbBase
LDivSmall[a \in Limbs, d \in Nat] ==
    IF a = <<>>
    THEN [q |-> <<>>, r |-> 0]
    ELSE LET high == LDivSmall[Tail(a), d]
             t == high.r * LimbBase + Head(a)
         IN  [q |-> LCons[t \div d, high.q], r |-> t % d]

\* the number of bits of a
BitLen[a \in Limbs] ==
    IF a = <<>> THEN 0
    ELSE LET top == a[Len(a)]
         IN  LimbBits * (Len(a) - 1)
               + (CHOOSE w \in 1..LimbBits : 2 ^ (w - 1) <= top /\ top < 2 ^ w)

\* a x 2^k
LShl[a \in Limbs, k \in Nat] ==
    IF a = <<>> THEN <<>>
    ELSE [i \in 1..(k \div LimbBits) |-> 0] \o LMulSmall[a, 2 ^ (k % LimbBits)]

\* a \div 2^k, and whether a bit was shifted out
LShr[a \in Limbs, k \in Nat] ==
    LET whole == k \div LimbBits
        high == LDivSmall[SubSeq(a, whole + 1, Len(a)), 2 ^ (k % LimbBits)]
    IN  [q |-> high.q, lost |-> high.r # 0 \/ \E i \in 1..whole : i <= Len(a) /\ a[i] # 0]

DblZero == [s |-> 1, m |-> <<>>, e |-> 0]

\* round up the 54 leading bits top of a longer mantissa: the nearest, ties to even
DblRoundUp[top \in Limbs, lost \in BOOLEAN] ==
    LET kept == LDivSmall[top, 2]
    IN  IF kept.r = 1 /\ (lost \/ kept.q[1] % 2 = 1) THEN LAdd[kept.q, <<1>>] ELSE kept.q

\* a mantissa of 53 or 54 bits with its exponent, as a double
DblPack[s \in {0 - 1, 1}, m \in Limbs, e \in Int] ==
    IF BitLen[m] > MantissaBits
    THEN [s |-> s, m |-> LDivSmall[m, 2].q, e |-> e + 1]
    ELSE [s |-> s, m |-> m, e |-> e]

\* round s x (m + a fraction that is nonzero when sticky) x 2^e to the
\* nearest double, ties to even
DblRound[s \in {0 - 1, 1}, m \in Limbs, e \in Int, sticky \in BOOLEAN] ==
    LET len == BitLen[m]
    IN  IF m = <<>> THEN DblZero
        ELSE IF len <= MantissaBits
        THEN [s |-> s, m |-> LShl[m, MantissaBits - len], e |-> e - (MantissaBits - len)]
        ELSE LET sh == LShr[m, len - MantissaBits - 1]
             IN  DblPack[s, DblRoundUp[sh.q, sh.lost \/ sticky], e + (len - MantissaBits)]

\* the double that a decimal numeral denotes (a number literal, parseFloat)
DblOf[x \in Rat] ==
    IF x.n = 0
    THEN DblZero
    ELSE LET shift == MantissaBits + 2 + BitLen[LimbsOf[x.d]] - BitLen[LimbsOf[Abs(x.n)]]
             scale == IF shift > 0 THEN shift ELSE 0
             qr == LDivSmall[LShl[LimbsOf[Abs(x.n)], scale], x.d]
         IN  DblRound[IF x.n < 0 THEN 0 - 1 ELSE 1, qr.q, 0 - scale, qr.r # 0]

DblAbs[a \in Dbl] == [a EXCEPT !.s = 1]
DblNeg[a \in Dbl] == IF a.m = <<>> THEN a ELSE [a EXCEPT !.s = 0 - a.s]

\* the mantissas of a and b over their common exponent
DblAlign[a \in Dbl, b \in Dbl] ==
    LET e == IF a.m = <<>> THEN b.e
             ELSE IF b.m = <<>> THEN a.e
             ELSE IF a.e < b.e THEN a.e ELSE b.e
    IN  [a |-> LShl[a.m, IF a.m = <<>> THEN 0 ELSE a.e - e],
         b |-> LShl[b.m, IF b.m = <<>> THEN 0 ELSE b.e - e], e |-> e]

DblMul[a \in Dbl, b \in Dbl] == DblRound[a.s * b.s, LMul[a.m, b.m], a.e + b.e, FALSE]

\* the sum of the aligned mantissas x and y carrying the signs of a and b
DblAddAligned[a \in Dbl, b \in Dbl, x \in Limbs, y \in Limbs, e \in Int] ==
    IF a.s = b.s THEN DblRound[a.s, LAdd[x, y], e, FALSE]
    ELSE IF LCmp[x, y] >= 0 THEN DblRound[a.s, LSub[x, y], e, FALSE]
    ELSE DblRound[b.s, LSub[y, x], e, FALSE]

DblAdd[a \in Dbl, b \in Dbl] ==
    DblAddAligned[a, b, DblAlign[a, b].a, DblAlign[a, b].b, DblAlign[a, b].e]

DblSub[a \in Dbl, b \in Dbl] == DblAdd[a, DblNeg[b]]

DblLt[a \in Dbl, b \in Dbl] ==
    IF a.s # b.s THEN a.s < b.s
    ELSE IF a.s = 1 THEN LCmp[DblAlign[a, b].a, DblAlign[a, b].b] < 0
    ELSE LCmp[DblAlign[a, b].a, DblAlign[a, b].b] > 0

\* lines 111-115: the band of voltage against expectedVoltage
SagBand[voltage \in Dbl, expectedVoltage \in Dbl] ==
    IF DblLt[voltage, DblSub[expectedVoltage, DblOf[D1(2)]]] THEN 10
    ELSE IF DblLt[voltage, DblSub[expectedVoltage, DblOf[D1(1)]]] THEN 5
    ELSE 0

\* FACTOR 1, voltage sag under load, lines 105-116: the thresholds are computed
\* in double arithmetic
SagDegradation(voltage, current) ==
    IF DblLt[DblZero, DblAbs[DblOf[current]]]
    THEN LET expectedVoltageDrop == DblMul[DblAbs[DblOf[current]], DblOf[D1(1)]]
             expectedVoltage == DblSub[DblOf[D1(37)], expectedVoltageDrop]
         IN  SagBand[DblOf[voltage], expectedVoltage]
    ELSE 0

\* FACTOR 2, temperature, lines 125-135
TemperatureDegradation(temperature) ==
    IF QGt[temperature, QInt(60)] THEN 15
    ELSE IF QGt[temperature, QInt(50)] THEN 10
    ELSE IF QGt[temperature, QInt(40)] THEN 5
    ELSE IF QLt[temperature, QInt(0)] THEN 8
    ELSE IF QLt[temperature, QInt(10)] THEN 3
    ELSE 0

\* FACTOR 3, deep discharge, lines 143-149
DeepDischargeDegradation(voltage) ==
    IF QLt[voltage, D1(30)] THEN 20
    ELSE IF QLt[voltage, D1(32)] THEN 10
    ELSE IF QLt[voltage, D1(34)] THEN 3
    ELSE 0

\* FACTOR 4, C-rate, lines 157-166
CRateDegradation(current) ==
    LET cRate == QDiv[QAbs[current], D1(20)]
    IN  IF QGt[cRate, D1(20)] THEN 8
        ELSE IF QGt[cRate, D1(15)] THEN 5
        ELSE IF QGt[cRate, D1(10)] THEN 2
        ELSE 0

\* FACTOR 5, overcharge, lines 174-178
OverchargeDegradation(voltage) ==
    IF QGt[voltage, D2(425)] THEN 15
    ELSE IF QGt[voltage, D2(422)] THEN 5
    ELSE 0

\* calculateSOH(voltage, current, temperature), lines 96-187 (Model A)
calculateSOH_A(voltage, current, temperature) ==
    LET totalDegradation ==
            SagDegradation(voltage, current) + TemperatureDegradation(temperature)
          + DeepDischargeDegradation(voltage) + CRateDegradation(current)
          + OverchargeDegradation(voltage)
        soh == QInt(100 - totalDegradation)
    IN  QMax[QInt(0), QMin[QInt(100), soh]]

VoltageFactorStrict(voltage) ==
    IF QLt[voltage, QAdd[D1(30), D1(2)]] THEN D1(8)
    ELSE IF QLe[voltage, D1(37)] THEN D1(9)
    ELSE QInt(1)

\* lines 547-551, with MIN_VOLTAGE = 3.0 and NOMINAL_VOLTAGE = 3.7 (lines 480, 482)
VoltageFactor(voltage) ==
    IF QLt[voltage, QAdd[D1(30), D1(2)]] THEN D1(8)
    ELSE IF QLt[voltage, D1(37)] THEN D1(9)
    ELSE QInt(1)

\* lines 554-558
TemperatureFactor(temperature) ==
    IF QGt[temperature, QInt(45)] \/ QLt[temperature, QInt(0)] THEN D2(85)
    ELSE IF QGt[temperature, QInt(35)] \/ QLt[temperature, QInt(10)] THEN D2(95)
    ELSE QInt(1)

\* calculateSOH(voltage, temperature), lines 542-573 (Model B)
calculateSOH_B(voltage, temperature) ==
    LET soh == QMul[QMul[VoltageFactor(voltage), TemperatureFactor(temperature)], QInt(100)]
    IN  IF QGt[soh, QInt(100)] THEN QInt(100)
        ELSE IF QLt[soh, QInt(0)] THEN QInt(0)
        ELSE soh

calculateRuntimeNoEfficiency(soc, current) ==
    LET availableCapacity == QMul[QDiv[soc, QInt(100)], QInt(2)]
    IN  IF QLe[current, QInt(0)] \/ isNaN(current)
        THEN availableCapacity
        ELSE QMax[QInt(0), QDiv[availableCapacity, QAbs[current]]]

\* calculateRuntime(soc, current), lines 193-212 and 578-597
calculateRuntime(soc, current) ==
    LET availableCapacity == QMul[QDiv[soc, QInt(100)], QInt(2)]
    IN  IF QLe[current, QInt(0)] \/ isNaN(current)
        THEN availableCapacity
        ELSE QMax[QInt(0), QMul[QDiv[availableCapacity, QAbs[current]], D2(85)]]

\* calculateRange(soc, current), lines 218-227 and 603-612
calculateRange(soc, current) ==
    QMax[QInt(0), QMul[calculateRuntime(soc, current), QInt(25)]]

\* calculatePower(voltage, current), lines 233-235 and 618-620
calculatePower(voltage, current) == QMul[voltage, QAbs[current]]

\* calculateEnergy(voltage, soc), lines 241-246 and 626-631
calculateEnergy(voltage, soc) == QMul[voltage, QMul[QDiv[soc, QInt(100)], QInt(2)]]

(***************************************************************************)
(* Arguments the calculation functions are applied to                      *)
(***************************************************************************)
\* volts
Voltages ==
    {D2(v) : v \in {0 - 100, 0, 290, 300, 310, 320, 330, 340, 350, 355, 370, 385,
                    400, 410, 420, 422, 423, 425, 426, 430, 500}}
\* amperes
Currents == {D1(c) : c \in {0 - 50, 0 - 10, 0, 5, 10, 20, 21, 30, 31, 40, 41, 100}}
\* degrees Celsius
Temperatures ==
    {QInt(t) : t \in {0 - 5, 0, 5, 10, 25, 35, 36, 40, 41, 45, 46, 50, 51, 60, 61}}
\* percent
Socs == {Q[s, 2] : s \in {0, 25, 50, 100, 117, 150, 200}}

NoCalc ==
    [fn |-> "none", voltage |-> QInt(0), current |-> QInt(0), temperature |-> QInt(0),
     soc |-> QInt(0), out |-> QInt(0)]

(***************************************************************************)
(* GET /api/data of the voltage-based server, server.js:255-317            *)
(***************************************************************************)
\* a field of the feed: a numeral, or null
MissingField == [ok |-> FALSE, val |-> NaN]
Field1Feed == {[ok |-> TRUE, val |-> D1(v)] : v \in {0 - 10, 0, 37, 43}} \cup {MissingField}
Field2Feed == {[ok |-> TRUE, val |-> D1(c)] : c \in {0 - 10, 0, 10}} \cup {MissingField}
Field3Feed == {[ok |-> TRUE, val |-> QInt(t)] : t \in {0 - 5, 25}} \cup {MissingField}
Field4Feed == {[ok |-> TRUE, val |-> QInt(f)] : f \in {1}} \cup {MissingField}
Feeds == [field1 : Field1Feed, field2 : Field2Feed, field3 : Field3Feed, field4 : Field4Feed]

\* parseFloat(f) || 0 and parseInt(f) || 0: NaN and 0 are falsy
ParseOrZero(f) ==
    LET parsed == IF f.ok THEN f.val ELSE NaN
    IN  IF isNaN(parsed) \/ parsed.n = 0 THEN QInt(0) ELSE parsed

Pow10(digits) == 10 ^ digits

\* the number x.toFixed(digits) denotes: the nearest multiple of 10^-digits,
\* the larger magnitude of two equally near
ToFixed(x, digits) ==
    LET num == Abs(x.n) * Pow10(digits)
        k == (2 * num + x.d) \div (2 * x.d)
    IN  Q[IF x.n < 0 THEN 0 - k ELSE k, Pow10(digits)]

\* Math.round(x): the nearest integer, the larger of two equally near
MathRound(x) == (2 * x.n + x.d) \div (2 * x.d)

\* lines 266-298: the locals of the handler and the batteryData it builds
BuildCycle(data) ==
    LET voltage == ParseOrZero(data.field1)
        current == ParseOrZero(data.field2)
        temperature == ParseOrZero(data.field3)
        chargingStatus == ParseOrZero(data.field4).n
        soc == calculateSOC_voltage(voltage)
        soh == calculateSOH_A(voltage, current, temperature)
        runtime == calculateRuntime(soc, current)
        range == calculateRange(soc, current)
        power == calculatePower(voltage, current)
        energy == calculateEnergy(voltage, soc)
    IN  [built |-> TRUE, data |-> data,
         voltage |-> voltage, current |-> current, temperature |-> temperature,
         soc |-> soc, soh |-> soh, runtime |-> runtime, range |-> range,
         power |-> power, energy |-> energy,
         batteryData |->
             [voltage |-> ToFixed(voltage, 2),
              current |-> ToFixed(current, 2),
              temperature |-> ToFixed(temperature, 1),
              chargingStatus |-> chargingStatus,
              chargingStatusText |-> IF chargingStatus = 1 THEN "Charging" ELSE "Discharging",
              soc |-> MathRound(soc),
              soh |-> MathRound(soh),
              runtime |-> ToFixed(runtime, 2),
              range |-> ToFixed(range, 1),
              power |-> ToFixed(power, 2),
              energy |-> ToFixed(energy, 2)]]

NoFeed == [field1 |-> MissingField, field2 |-> MissingField, field3 |-> MissingField,
           field4 |-> MissingField]
\* before the first sample nothing has been built
NoCycle == [built |-> FALSE]

(***************************************************************************)
(* POST /api/mode, server.js:324-374 (the same at 708-758)                 *)
(***************************************************************************)
\* req.body.mode: absent, a string, or a number (written as its numeral)
Undefined == [kind |-> "undefined", val |-> ""]
Str(text) == [kind |-> "string", val |-> text]
Num(numeral) == [kind |-> "number", val |-> numeral]
ModeBodies == {Undefined, Str(""), Str("eco"), Str("sport"), Str("turbo"), Str("ECO"), Num("0"), Num("1")}

\* !mode
Falsy(mode) == mode = Undefined \/ mode = Str("") \/ mode = Num("0")

ValidModeAnyTruthy(mode) == ~Falsy(mode)
\* line 328, negated
ValidMode(mode) == ~(Falsy(mode) \/ (mode # Str("eco") /\ mode # Str("sport")))

\* line 337
ModeValueOf(mode) == IF mode = Str("eco") THEN 0 ELSE 1

\* response.data of the update request: the entry id, or 0 when the channel
\* refuses the update
ChannelAccepts == {Num("7")}
ChannelRefuses == {Num("0"), Str("0")}

IdleMode == [at |-> "idle", mode |-> Undefined, modeValue |-> 0, before |-> <<>>]
NoAnswer == [kind |-> "none", val |-> ""]
NoModeResp ==
    [status |-> 0, success |-> FALSE, error |-> "", body |-> Undefined, sent |-> FALSE,
     modeValue |-> 0, answer |-> NoAnswer, before |-> <<>>, after |-> <<>>]

(***************************************************************************)
(* The dashboard, public/script.js:129-183                                 *)
(***************************************************************************)
\* setMode calls that may await their response at the same time
MaxPending == 3
Modes == {"eco", "sport"}

\* script.js:172-183: the button that carries the class "active" afterwards
setActiveMode(mode) == IF mode = "eco" THEN "eco" ELSE "sport"

\* mode.toUpperCase()
ToUpperCase(mode) == IF mode = "eco" THEN "ECO" ELSE "SPORT"

\* the sequence without its i-th element
RemoveAt(seq, i) == SubSeq(seq, 1, i - 1) \o SubSeq(seq, i + 1, Len(seq))

NoDash == [kind |-> "none", mode |-> "eco", modeBefore |-> "eco"]

(***************************************************************************)
(* Initial state: the module-level initialisers, server.js:485-490         *)
(***************************************************************************)
Init ==
    /\ clock = 0
    /\ totalCurrent_mAh = 0
    /\ consumedCapacity = 0
    /\ lastUpdateTime = clock
    /\ isCharging = FALSE
    /\ previousCurrent = 0
    /\ reqPc = [r \in Requests |-> "idle"]
    /\ reqResp = [r \in Requests |-> "none"]
    /\ resetResp = "none"
    /\ nOps = 0
    /\ last = NoOp
    /\ serial = ChargeState
    /\ calc = NoCalc
    /\ v1Pc = "idle"
    /\ v1Cycle = NoCycle
    /\ v1Resp = "none"
    /\ modePc = IdleMode
    /\ modeResp = NoModeResp
    /\ field5 = <<>>
    /\ currentMode = "eco"
    /\ activeBtn = "eco"
    /\ currentModeText = "ECO"
    /\ modeCalls = <<>>
    /\ dashLast = NoDash

(***************************************************************************)
(* Actions                                                                 *)
(***************************************************************************)
\* the wall clock moves between two events
Tick ==
    /\ \E s \in ClockSteps :
          /\ clock + s >= 0
          /\ clock + s <= MaxClockTicks * TickMs
          /\ clock' = clock + s
    /\ UNCHANGED <<chargeVars, previousCurrent, reqPc, reqResp, resetResp, nOps, last, serial>>
    /\ UNCHANGED <<calcVars, apiVars, dashVars>>

\* GET /api/data up to the await of axios.get, lines 640-649.  The requests
\* are interchangeable: a new one takes the first idle slot.
DataStart(r) ==
    /\ reqPc[r] = "idle"
    /\ \A q \in Requests : q < r => reqPc[q] # "idle"
    /\ nOps < MaxOps
    /\ nOps' = nOps + 1
    /\ reqPc' = [reqPc EXCEPT ![r] = "fetching"]
    /\ UNCHANGED <<chargeVars, previousCurrent, clock, reqResp, resetResp, last, serial>>
    /\ UNCHANGED <<calcVars, apiVars, dashVars>>

\* axios.get rejects (network error, timeout, HTTP error): the catch block, lines 693-700
DataFetchFail(r) ==
    /\ reqPc[r] = "fetching"
    /\ reqPc' = [reqPc EXCEPT ![r] = "idle"]
    /\ reqResp' = [reqResp EXCEPT ![r] = "error"]
    /\ UNCHANGED <<chargeVars, previousCurrent, clock, resetResp, nOps, last, serial>>
    /\ UNCHANGED <<calcVars, apiVars, dashVars>>

DataFetchDoneSkipWhenBusy(r) ==
    /\ reqPc[r] = "fetching"
    /\ \E f2 \in Field2Values :
          LET current == ParseField(f2)
              current_mA == ToMilliAmps(current)
              res == calculateSOC(ChargeState, current_mA, clock)
              busy == \E q \in Requests : q # r /\ reqPc[q] = "fetching"
              applied == IF busy THEN ChargeState ELSE res.state
          IN  /\ totalCurrent_mAh' = applied.totalCurrent_mAh
              /\ consumedCapacity' = applied.consumedCapacity
              /\ lastUpdateTime' = applied.lastUpdateTime
              /\ isCharging' = applied.isCharging
              /\ last' = UpdateOp(r, f2, current, current_mA, res)
              /\ serial' = calculateSOC(serial, current_mA, clock).state
    /\ reqPc' = [reqPc EXCEPT ![r] = "idle"]
    /\ reqResp' = [reqResp EXCEPT ![r] = DataResponse]
    /\ UNCHANGED <<previousCurrent, clock, resetResp, nOps>>
    /\ UNCHANGED <<calcVars, apiVars, dashVars>>

\* axios.get resolves: the rest of the handler runs to completion, lines 651-700.
\* calculateSOC (line 663) updates ChargeState; building batteryData then reads
\* the undeclared names runtime, range, power, energy (lines 678-681), which
\* throws a ReferenceError, so the catch block answers with the error response
\* (DataResponse).
DataFetchDone(r) ==
    /\ reqPc[r] = "fetching"
    /\ \E f2 \in Field2Values :
          LET current == ParseField(f2)
              current_mA == ToMilliAmps(current)
              res == calculateSOC(ChargeState, current_mA, clock)
          IN  /\ totalCurrent_mAh' = res.state.totalCurrent_mAh
              /\ consumedCapacity' = res.state.consumedCapacity
              /\ lastUpdateTime' = res.state.lastUpdateTime
              /\ isCharging' = res.state.isCharging
              /\ last' = UpdateOp(r, f2, current, current_mA, res)
              /\ serial' = calculateSOC(serial, current_mA, clock).state
    /\ reqPc' = [reqPc EXCEPT ![r] = "idle"]
    /\ reqResp' = [reqResp EXCEPT ![r] = DataResponse]
    /\ UNCHANGED <<previousCurrent, clock, resetResp, nOps>>
    /\ UNCHANGED <<calcVars, apiVars, dashVars>>

\* POST /api/reset-soc, lines 765-790: synchronous, one step
ResetSoc ==
    /\ nOps < MaxOps
    /\ nOps' = nOps + 1
    /\ \E body \in ResetBodies :
          LET st2 == resetState(ChargeState, body, clock)
          IN  /\ totalCurrent_mAh' = st2.totalCurrent_mAh
              /\ consumedCapacity' = st2.consumedCapacity
              /\ lastUpdateTime' = st2.lastUpdateTime
              /\ isCharging' = st2.isCharging
              /\ last' = ResetOp(body)
              /\ serial' = resetState(serial, body, clock)
    /\ resetResp' = "success"
    /\ UNCHANGED <<previousCurrent, clock, reqPc, reqResp>>
    /\ UNCHANGED <<calcVars, apiVars, dashVars>>

Next ==
    \/ Tick
    \/ \E r \in Requests : DataStart(r)
    \/ \E r \in Requests : DataFetchFail(r)
    \/ \E r \in Requests : DataFetchDone(r)
    \/ ResetSoc

Spec == Init /\ [][Next]_vars

(***************************************************************************)
(* The calculation functions applied to arguments of their domain: one     *)
(* application per behaviour, recorded in calc                             *)
(***************************************************************************)
ApplySOC ==
    /\ calc.fn = "none"
    /\ \E v \in Voltages :
          calc' = [NoCalc EXCEPT !.fn = "calculateSOC", !.voltage = v,
                                 !.out = calculateSOC_voltage(v)]
    /\ UNCHANGED <<coulombVars, apiVars, dashVars>>

ApplySOH_A ==
    /\ calc.fn = "none"
    /\ \E v \in Voltages, c \in Currents, t \in Temperatures :
          calc' = [NoCalc EXCEPT !.fn = "calculateSOH_A", !.voltage = v, !.current = c,
                                 !.temperature = t, !.out = calculateSOH_A(v, c, t)]
    /\ UNCHANGED <<coulombVars, apiVars, dashVars>>

ApplySOH_B ==
    /\ calc.fn = "none"
    /\ \E v \in Voltages, t \in Temperatures :
          calc' = [NoCalc EXCEPT !.fn = "calculateSOH_B", !.voltage = v,
                                 !.temperature = t, !.out = calculateSOH_B(v, t)]
    /\ UNCHANGED <<coulombVars, apiVars, dashVars>>

ApplyRuntime ==
    /\ calc.fn = "none"
    /\ \E s \in Socs, c \in Currents \cup {NaN} :
          calc' = [NoCalc EXCEPT !.fn = "calculateRuntime", !.soc = s, !.current = c,
                                 !.out = calculateRuntime(s, c)]
    /\ UNCHANGED <<coulombVars, apiVars, dashVars>>

ApplyRange ==
    /\ calc.fn = "none"
    /\ \E s \in Socs, c \in Currents \cup {NaN} :
          calc' = [NoCalc EXCEPT !.fn = "calculateRange", !.soc = s, !.current = c,
                                 !.out = calculateRange(s, c)]
    /\ UNCHANGED <<coulombVars, apiVars, dashVars>>

ApplyPower ==
    /\ calc.fn = "none"
    /\ \E v \in Voltages, c \in Currents :
          calc' = [NoCalc EXCEPT !.fn = "calculatePower", !.voltage = v, !.current = c,
                                 !.out = calculatePower(v, c)]
    /\ UNCHANGED <<coulombVars, apiVars, dashVars>>

ApplyEnergy ==
    /\ calc.fn = "none"
    /\ \E v \in Voltages, s \in Socs :
          calc' = [NoCalc EXCEPT !.fn = "calculateEnergy", !.voltage = v, !.soc = s,
                                 !.out = calculateEnergy(v, s)]
    /\ UNCHANGED <<coulombVars, apiVars, dashVars>>

NextCalc ==
    \/ ApplySOC
    \/ ApplySOH_A
    \/ ApplySOH_B
    \/ ApplyRuntime
    \/ ApplyRange
    \/ ApplyPower
    \/ ApplyEnergy

SpecCalc == Init /\ [][NextCalc]_vars

(***************************************************************************)
(* The voltage-based GET /api/data and POST /api/mode                      *)
(***************************************************************************)
\* line 258: the request arrives and the handler awaits the feed
V1Start ==
    /\ v1Pc = "idle"
    /\ v1Pc' = "fetching"
    /\ v1Cycle' = NoCycle
    /\ v1Resp' = "none"
    /\ UNCHANGED <<modePc, modeResp, field5, coulombVars, calcVars, dashVars>>

\* lines 308-315: axios.get rejects
V1FetchFail ==
    /\ v1Pc = "fetching"
    /\ v1Pc' = "idle"
    /\ v1Resp' = "error"
    /\ UNCHANGED <<v1Cycle, modePc, modeResp, field5, coulombVars, calcVars, dashVars>>

\* lines 264-307: the feed arrives; the rest of the handler runs to completion
V1FetchDone ==
    /\ v1Pc = "fetching"
    /\ \E data \in Feeds : v1Cycle' = BuildCycle(data)
    /\ v1Pc' = "idle"
    /\ v1Resp' = "success"
    /\ UNCHANGED <<modePc, modeResp, field5, coulombVars, calcVars, dashVars>>

\* lines 363-373 and 327-333: the two error responses
ModeError(status, error, req, sent, answer, after) ==
    [status |-> status, success |-> FALSE, error |-> error, body |-> req.mode, sent |-> sent,
     modeValue |-> req.modeValue, answer |-> answer, before |-> req.before, after |-> after]

\* lines 326-346: the request arrives; an invalid mode is answered at once,
\* a valid one sends the update and awaits the channel
ModePost ==
    /\ modePc.at = "idle"
    /\ \E mode \in ModeBodies :
          IF ~ValidMode(mode)
          THEN /\ modeResp' = ModeError(400, "Invalid mode",
                                        [IdleMode EXCEPT !.mode = mode, !.before = field5],
                                        FALSE, NoAnswer, field5)
               /\ UNCHANGED modePc
          ELSE /\ modePc' = [at |-> "writing", mode |-> mode, modeValue |-> ModeValueOf(mode),
                             before |-> field5]
               /\ modeResp' = NoModeResp
    /\ UNCHANGED <<field5, v1Pc, v1Cycle, v1Resp, coulombVars, calcVars, dashVars>>

\* lines 348-362: the channel answers; it has stored the value unless it answers 0
ModeWriteDone ==
    /\ modePc.at = "writing"
    /\ \E answer \in ChannelAccepts \cup ChannelRefuses :
          LET stored == IF answer \in ChannelAccepts THEN <<modePc.modeValue>> ELSE field5
          IN  /\ field5' = stored
              /\ modeResp' =
                    IF answer = Num("0") \/ answer = Str("0")
                    THEN ModeError(500, "Failed to set mode", modePc, TRUE, answer, stored)
                    ELSE [status |-> 200, success |-> TRUE, error |-> "", body |-> modePc.mode,
                          sent |-> TRUE, modeValue |-> modePc.modeValue, answer |-> answer,
                          before |-> modePc.before, after |-> stored]
    /\ modePc' = IdleMode
    /\ UNCHANGED <<v1Pc, v1Cycle, v1Resp, coulombVars, calcVars, dashVars>>

\* lines 363-370: axios.get rejects (timeout, network); the update may or may
\* not have reached the channel
ModeWriteFail ==
    /\ modePc.at = "writing"
    /\ \E reached \in BOOLEAN :
          LET stored == IF reached THEN <<modePc.modeValue>> ELSE field5
          IN  /\ field5' = stored
              /\ modeResp' = ModeError(500, "Failed to set mode", modePc, TRUE, NoAnswer, stored)
    /\ modePc' = IdleMode
    /\ UNCHANGED <<v1Pc, v1Cycle, v1Resp, coulombVars, calcVars, dashVars>>

NextApi ==
    \/ V1Start
    \/ V1FetchFail
    \/ V1FetchDone
    \/ ModePost
    \/ ModeWriteDone
    \/ ModeWriteFail

SpecApi == Init /\ [][NextApi]_vars

(***************************************************************************)
(* The dashboard: setMode calls and their responses                        *)
(***************************************************************************)
\* script.js:129-143: a mode button is clicked; the highlight moves at once
\* and the request is sent
SetModeCall ==
    /\ Len(modeCalls) < MaxPending
    /\ \E mode \in Modes :
          /\ activeBtn' = setActiveMode(mode)
          /\ modeCalls' = Append(modeCalls, mode)
          /\ dashLast' = [kind |-> "call", mode |-> mode, modeBefore |-> currentMode]
    /\ UNCHANGED <<currentMode, currentModeText, coulombVars, calcVars, apiVars>>

\* script.js:145-158: the response of one pending call arrives with success
SetModeSuccess ==
    /\ \E i \in 1..Len(modeCalls) :
          /\ currentMode' = modeCalls[i]
          /\ currentModeText' = ToUpperCase(modeCalls[i])
          /\ modeCalls' = RemoveAt(modeCalls, i)
          /\ dashLast' = [kind |-> "success", mode |-> modeCalls[i], modeBefore |-> currentMode]
    /\ UNCHANGED <<activeBtn, coulombVars, calcVars, apiVars>>

\* script.js:147-149, 159-166: the response of one pending call is a failure
\* (success = false), or its fetch is rejected
SetModeFailure ==
    /\ \E i \in 1..Len(modeCalls), cause \in {"failure", "rejected"} :
          /\ modeCalls' = RemoveAt(modeCalls, i)
          /\ dashLast' = [kind |-> cause, mode |-> modeCalls[i], modeBefore |-> currentMode]
    /\ activeBtn' = setActiveMode(currentMode)
    /\ UNCHANGED <<currentMode, currentModeText, coulombVars, calcVars, apiVars>>

NextDash ==
    \/ SetModeCall
    \/ SetModeSuccess
    \/ SetModeFailure

SpecDash == Init /\ [][NextDash]_vars

(***************************************************************************)
(* Properties.  `last` is the latest ChargeState operation; no other step  *)
(* changes ChargeState, so while `last` stands the globals are the state   *)
(* that operation left.                                                    *)
(***************************************************************************)
IsUpdate == last.kind = "update"
IsReset == last.kind = "reset"
\* the update integrated a discharge: current > 0 over a positive elapsed time
IsDischarge == IsUpdate /\ last.current_mA > 0 /\ last.deltaMs > 0

C2_ConsumedClamped == consumedCapacity >= 0 /\ consumedCapacity <= BATTERY_CAPACITY

C4_DischargeMonotone ==
    (IsDischarge /\ last.prevKind = "update" /\ last.prevDischarge)
        => last.soc <= last.prevSoc

C4_Witness ==
    /\ IsDischarge /\ last.prevKind = "update" /\ last.prevDischarge
    /\ last.soc < last.prevSoc

\* C5 as stated: an update with elapsed time <= 0 leaves ChargeState
\* unchanged and returns the SOC the previous update returned.
C5_StalledReturnsPreviousSoc ==
    (IsUpdate /\ last.deltaMs <= 0)
        => /\ ChargeState = last.pre
           /\ last.hasPrevSoc => last.soc = last.prevSoc

\* C5 amended: an update with elapsed time <= 0 leaves ChargeState unchanged
\* and returns the SOC of the unchanged consumedCapacity; that is the SOC of
\* the previous update when no reset happened since that update.
C5_StalledIsNoOp ==
    (IsUpdate /\ last.deltaMs <= 0)
        => /\ ChargeState = last.pre
           /\ last.soc * BATTERY_CAPACITY =
                 IF last.pre.consumedCapacity < 0 THEN 100 * BATTERY_CAPACITY
                 ELSE IF last.pre.consumedCapacity > BATTERY_CAPACITY THEN 0
                 ELSE 100 * (BATTERY_CAPACITY - last.pre.consumedCapacity)
           /\ (last.hasPrevSoc /\ ~last.resetSince) => last.soc = last.prevSoc

\* the clock went backwards between two updates, the second with a current
C5_Witness ==
    /\ IsUpdate /\ last.deltaMs < 0 /\ last.current_mA > 0
    /\ last.hasPrevSoc /\ ~last.resetSince /\ last.prevSoc < 100

\* C6: an update with current <= 0 leaves consumedCapacity unchanged, and
\* between two resets the SOC returned by update never rises.
C6_NoRechargeWithoutReset ==
    IsUpdate
        => /\ last.current_mA <= 0 => consumedCapacity = last.pre.consumedCapacity
           /\ (last.hasPrevSoc /\ ~last.resetSince) => last.soc <= last.prevSoc

\* a charging current over a positive time on a partly discharged battery
C6_Witness ==
    /\ IsUpdate /\ last.current_mA < 0 /\ last.deltaMs > 0
    /\ last.pre.consumedCapacity > 0 /\ last.pre.consumedCapacity < BATTERY_CAPACITY
    /\ last.hasPrevSoc /\ ~last.resetSince

\* C7: reset(p) with p in 0..100, p = 0 included, sets consumedCapacity to
\* BATTERY_CAPACITY x (100 - p) / 100 and lastUpdateTime to now; without a
\* percent it sets consumedCapacity to 0.
C7_ResetSetsConsumed ==
    IsReset
        => /\ lastUpdateTime = last.now
           /\ (last.body.has /\ last.body.soc >= 0 /\ last.body.soc <= 100)
                 => consumedCapacity * 100 = BATTERY_CAPACITY * (100 - last.body.soc)
           /\ ~last.body.has => consumedCapacity = 0

\* C8: a reset with a percent below 0 or above 100 succeeds and applies the
\* percent clamped to [0, 100], so consumedCapacity stays in [0, BATTERY_CAPACITY].
C8_ResetClampsPercent ==
    (IsReset /\ last.body.has /\ (last.body.soc < 0 \/ last.body.soc > 100))
        => /\ resetResp = "success"
           /\ consumedCapacity = IF last.body.soc < 0 THEN BATTERY_CAPACITY ELSE 0

\* C9: reset(100) followed by an update with current = 0, after any elapsed
\* time, returns SOC = 100.
C9_FullResetThenIdle ==
    (IsUpdate /\ last.current_mA = 0 /\ last.prevFullReset) => last.soc = 100

\* the battery had been discharged before the reset, and time passed after it
C9_Witness ==
    /\ IsUpdate /\ last.current_mA = 0 /\ last.prevFullReset
    /\ last.deltaMs > 0 /\ last.hasPrevSoc /\ last.prevSoc < 100

\* C10: an update with current > 0 and positive elapsed time adds exactly
\* current x deltaHours to consumedCapacity, clears isCharging and sets
\* lastUpdateTime to now; 2 A over exactly one hour from consumedCapacity = 0
\* gives consumedCapacity = 2000 mAh (the rated capacity) and SOC = 0.
C10_DischargeIntegrates ==
    IsDischarge
        => /\ (consumedCapacity - last.pre.consumedCapacity) * TicksPerHour
                 = last.current_mA * (last.deltaMs \div TickMs)
           /\ last.current_mA = last.current * 1000
           /\ isCharging = FALSE
           /\ lastUpdateTime = last.now
           /\ (last.pre.consumedCapacity = 0 /\ last.current = 2 /\ last.deltaMs = MsPerHour)
                 => (consumedCapacity = BATTERY_CAPACITY /\ last.soc = 0)

\* the 2 A, one hour scenario, while the battery was flagged as charging
C10_Witness ==
    /\ IsDischarge /\ last.pre.consumedCapacity = 0 /\ last.current = 2
    /\ last.deltaMs = MsPerHour /\ last.pre.isCharging

\* C11: GET /api/data answers with a failure only when the telemetry fetch
\* failed: a cycle whose telemetry was available, and which updated
\* ChargeState, answers with success = true.
C11_FailureOnlyWhenFetchFailed == IsUpdate => last.resp = "success"

\* C12: a sample fetched successfully whose field is missing or not a number
\* has that field treated as 0, and the cycle completes with a success response.
C12_MissingFieldIsZero ==
    (IsUpdate /\ ~last.fieldOk) => (last.current = 0 /\ last.resp = "success")

(***************************************************************************)
(* Properties of the calculation functions (SpecCalc)                      *)
(***************************************************************************)
InPercentRange(x) == QGe[x, QInt(0)] /\ QLe[x, QInt(100)]

\* C13: the SOH of Model A and of Model B is within [0, 100] for every input,
\* and is exactly 100 at voltage = 3.7, temperature = 25 (and current = 0).
C13_SohInRange ==
    /\ calc.fn \in {"calculateSOH_A", "calculateSOH_B"} => InPercentRange(calc.out)
    /\ (calc.fn = "calculateSOH_A" /\ calc.voltage = D1(37) /\ calc.current = QInt(0)
          /\ calc.temperature = QInt(25)) => calc.out = QInt(100)
    /\ (calc.fn = "calculateSOH_B" /\ calc.voltage = D1(37)
          /\ calc.temperature = QInt(25)) => calc.out = QInt(100)

\* Model B at the nominal point
C13_Witness ==
    /\ calc.fn = "calculateSOH_B" /\ calc.voltage = D1(37) /\ calc.temperature = QInt(25)
    /\ calc.out = QInt(100)

\* C14: Model A SOH is 100 minus the sum of the five band penalties of the
\* specification, clamped to [0, 100]; voltage = 4.3 with current = 0 and
\* temperature = 25 gives 85.
C14_ModelAPenalties ==
    calc.fn = "calculateSOH_A" =>
        LET v == calc.voltage
            c == QAbs[calc.current]
            t == calc.temperature
            expected == QSub[D1(37), QMul[D1(1), c]]
            below == QSub[expected, v]
            sag == IF c = QInt(0) THEN 0
                   ELSE IF QGt[below, D1(2)] THEN 10
                   ELSE IF QGt[below, D1(1)] THEN 5 ELSE 0
            temp == IF QGt[t, QInt(60)] THEN 15
                    ELSE IF QGt[t, QInt(50)] THEN 10
                    ELSE IF QGt[t, QInt(40)] THEN 5
                    ELSE IF QLt[t, QInt(0)] THEN 8
                    ELSE IF QLt[t, QInt(10)] THEN 3 ELSE 0
            deep == IF QLt[v, QInt(3)] THEN 20
                    ELSE IF QLt[v, D1(32)] THEN 10
                    ELSE IF QLt[v, D1(34)] THEN 3 ELSE 0
            cRate == QDiv[c, QInt(2)]
            rate == IF QGt[cRate, QInt(2)] THEN 8
                    ELSE IF QGt[cRate, D1(15)] THEN 5
                    ELSE IF QGt[cRate, QInt(1)] THEN 2 ELSE 0
            over == IF QGt[v, D2(425)] THEN 15
                    ELSE IF QGt[v, D2(422)] THEN 5 ELSE 0
            sum == sag + temp + deep + rate + over
            clamped == IF sum > 100 THEN 0 ELSE 100 - sum
        IN  /\ calc.out = QInt(clamped)
            /\ (v = D1(43) /\ c = QInt(0) /\ t = QInt(25)) => calc.out = QInt(85)

\* the 4.3 V scenario
C14_Witness ==
    /\ calc.fn = "calculateSOH_A" /\ calc.voltage = D1(43) /\ calc.current = QInt(0)
    /\ calc.temperature = QInt(25) /\ calc.out = QInt(85)

\* the value C15 gives runtime(soc, current)
C15_RuntimeOf(soc, current) ==
    LET available == Q[soc.n * 2, soc.d * 100]
    IN  IF isNaN(current) \/ current.n <= 0
        THEN available
        ELSE QDiv[QMul[available, Q[85, 100]], QAbs[current]]

C18_Table ==
    <<[v |-> D1(30), soc |-> 0], [v |-> D1(34), soc |-> 10], [v |-> D1(37), soc |-> 40],
      [v |-> D1(40), soc |-> 80], [v |-> D1(42), soc |-> 100]>>

\* C18: calculateSOC(voltage) is 0 up to 3.0 V and 100 from 4.2 V, takes the
\* table's value at each breakpoint, is linear between consecutive breakpoints,
\* is non-decreasing in the voltage and stays within [0, 100].
C18_PiecewiseTable ==
    calc.fn = "calculateSOC" =>
        LET v == calc.voltage
        IN  /\ InPercentRange(calc.out)
            /\ QLe[v, D1(30)] => calc.out = QInt(0)
            /\ QGe[v, D1(42)] => calc.out = QInt(100)
            /\ \A i \in 1..Len(C18_Table) : v = C18_Table[i].v => calc.out = QInt(C18_Table[i].soc)
            /\ \A i \in 1..(Len(C18_Table) - 1) :
                  LET a == C18_Table[i]
                      b == C18_Table[i + 1]
                  IN  (QLe[a.v, v] /\ QLe[v, b.v]) =>
                          \* (out - a.soc) x (b.v - a.v) = (v - a.v) x (b.soc - a.soc)
                          QMul[QSub[calc.out, QInt(a.soc)], QSub[b.v, a.v]]
                              = QMul[QSub[v, a.v], QInt(b.soc - a.soc)]
            /\ \A w \in Voltages : QLe[v, w] => QLe[calc.out, calculateSOC_voltage(w)]

\* a voltage strictly inside the 3.7 V - 4.0 V segment
C18_Witness ==
    /\ calc.fn = "calculateSOC" /\ calc.voltage = D2(385) /\ calc.out = QInt(60)

(***************************************************************************)
(* Properties of the voltage-based GET /api/data and of POST /api/mode     *)
(* (SpecApi)                                                               *)
(***************************************************************************)
\* C16: for every sample GET /api/data accepts, negative and zero values
\* included, the metrics built have runtime >= 0, range >= 0, power >= 0 and
\* energy >= 0, with power = voltage x |current| and
\* energy = voltage x (soc/100 x 2.0).
C16_MetricsNonNegative ==
    v1Cycle.built =>
        LET zero == QInt(0)
            b == v1Cycle.batteryData
        IN  /\ QGe[v1Cycle.runtime, zero] /\ QGe[b.runtime, zero]
            /\ QGe[v1Cycle.range, zero] /\ QGe[b.range, zero]
            /\ QGe[v1Cycle.power, zero] /\ QGe[b.power, zero]
            /\ QGe[v1Cycle.energy, zero] /\ QGe[b.energy, zero]
            /\ v1Cycle.power = QMul[v1Cycle.voltage, QAbs[v1Cycle.current]]
            /\ v1Cycle.energy
                 = QMul[v1Cycle.voltage, QMul[QDiv[v1Cycle.soc, QInt(100)], QInt(2)]]

\* the mode a request must carry
C17_ExactMode(body) == body = Str("eco") \/ body = Str("sport")

\* C17: POST /api/mode sends a write to the channel only when mode is exactly
\* "eco" (value 0) or "sport" (value 1); a missing or any other mode is
\* answered with the invalid-mode error and nothing is written; success is
\* reported only if the channel accepted the write, an answer of 0 is a failure.
C17_ModeWrite ==
    /\ modePc.at = "writing" =>
          /\ C17_ExactMode(modePc.mode)
          /\ modePc.modeValue = (IF modePc.mode = Str("eco") THEN 0 ELSE 1)
    /\ modeResp.status # 0 =>
          /\ modeResp.sent <=> C17_ExactMode(modeResp.body)
          /\ ~modeResp.sent =>
                /\ modeResp.status = 400 /\ ~modeResp.success
                /\ modeResp.error = "Invalid mode"
                /\ modeResp.after = modeResp.before
          /\ modeResp.sent =>
                /\ modeResp.modeValue = (IF modeResp.body = Str("eco") THEN 0 ELSE 1)
                /\ modeResp.after \in {modeResp.before, <<modeResp.modeValue>>}
          /\ modeResp.success =>
                /\ modeResp.status = 200
                /\ modeResp.answer \in ChannelAccepts
                /\ modeResp.after = <<modeResp.modeValue>>
          /\ modeResp.answer \in ChannelRefuses =>
                /\ ~modeResp.success /\ modeResp.status = 500
                /\ modeResp.error = "Failed to set mode"
                /\ modeResp.after = modeResp.before

\* sport accepted by the channel after eco had been stored
C17_Witness ==
    /\ modeResp.success /\ modeResp.body = Str("sport")
    /\ modeResp.before = <<0>> /\ field5 = <<1>>

(***************************************************************************)
(* Properties of the dashboard (SpecDash)                                  *)
(***************************************************************************)
\* C19: for any sequence of setMode calls, calls issued while earlier requests
\* are pending and responses in any order included, once every pending request
\* has completed the highlighted button shows currentMode; a failed request
\* leaves currentMode unchanged and reverts the highlight to currentMode.
C19_HighlightShowsCurrentMode ==
    /\ modeCalls = <<>> => activeBtn = currentMode
    /\ dashLast.kind \in {"failure", "rejected"} =>
          /\ currentMode = dashLast.modeBefore
          /\ activeBtn = currentMode

====
